---- MODULE Spec2Model ----
(***************************************************************************)
(* Search-cycle orchestrator of the job-search agent: runSearchCycle       *)
(* (scheduler.ts) over the SQLite store (db/database.ts), the OpenAI       *)
(* scorer with its retry policy (ai/analyzer.ts) and the Telegram          *)
(* notifier (bot/bot.ts).  A cycle is an async function: it is modelled    *)
(* as one action per await point, each action running the synchronous      *)
(* code up to the next await.  Two invocation slots let a scheduler tick   *)
(* and a /search command overlap, as the code allows.                      *)
(***************************************************************************)
EXTENDS Integers, Sequences, FiniteSets, TLC

(* ---------------- bounds of the model ---------------- *)
MaxCycles == 2        \* cycle invocations per behaviour
MaxFetch == 2         \* postings returned by one fetch
NumIds == 2           \* external ids each source can return
MaxJobs == 3          \* distinct postings the sources ever return
MaxFaults == 3        \* failing external calls (fetch, scorer, send) per behaviour
MaxCmds == 3          \* /start and /stop commands per behaviour

(* ---------------- program constants ---------------- *)
MAX_RETRIES == 2
RETRY_BASE_MS == 3000
minMatchScore == 50

NULL == << >>
Some(v) == << v >>

Procs == {1, 2}
ChatIds == {1, 2}
ExtIds == 1 .. NumIds
InRange == {40, 50, 70}    \* scores within 0-100, as the prompt asks for
OutOfRange == {150}        \* a score the model may return all the same
Titles == {"t1", "t2"}     \* what a source can say about a posting (title, company, url, ...)
Scores == InRange \cup OutOfRange

(* the parser registry of parsers/index.ts *)
parserRegistry == {"remoteok", "headhunter", "linkedin"}

getParser(name) == name \in parserRegistry

(* config.json as shipped (README) *)
SitesShipped ==
  << [name |-> "remoteok", enabled |-> TRUE],
     [name |-> "headhunter", enabled |-> TRUE],
     [name |-> "linkedin", enabled |-> FALSE] >>

(* config.json with { "name": "mysite", "enabled": true } added for a site *)
(* whose parser was never registered                                       *)
SitesUnregistered ==
  << [name |-> "remoteok", enabled |-> TRUE],
     [name |-> "mysite", enabled |-> TRUE],
     [name |-> "headhunter", enabled |-> TRUE],
     [name |-> "linkedin", enabled |-> FALSE] >>


RECURSIVE Pow2(_)
Pow2(n) == IF n = 0 THEN 1 ELSE 2 * Pow2(n - 1)

Filter(s, Test(_)) == SelectSeq(s, Test)

(* ======================= db/database.ts ======================= *)

(* a row of table jobs after INSERT: the columns the cycle reads or        *)
(* writes; title stands for all the columns copied from the posting        *)
JobRow(id, job) ==
  [id |-> id, source |-> job.source, external_id |-> job.externalId, title |-> job.title,
   match_score |-> NULL, match_reasoning |-> NULL, notified |-> 0]

HasKey(db, job) ==
  \E i \in DOMAIN db :
     db[i].source = job.source /\ db[i].external_id = job.externalId

(* INSERT without OR IGNORE and without the UNIQUE constraint *)
insertJobAlways(db, job) ==
  [db |-> Append(db, JobRow(Len(db) + 1, job)), result |-> TRUE]

(* INSERT OR REPLACE: the old row is replaced by a fresh one *)
insertJobReplace(db, job) ==
  IF HasKey(db, job)
  THEN [db |-> [i \in DOMAIN db |->
                  IF db[i].source = job.source /\ db[i].external_id = job.externalId
                  THEN JobRow(i, job) ELSE db[i]],
        result |-> TRUE]
  ELSE [db |-> Append(db, JobRow(Len(db) + 1, job)), result |-> TRUE]

(* INSERT ... ON CONFLICT DO UPDATE of the columns copied from the posting *)
insertJobUpsert(db, job) ==
  IF HasKey(db, job)
  THEN [db |-> [i \in DOMAIN db |->
                  IF db[i].source = job.source /\ db[i].external_id = job.externalId
                  THEN [db[i] EXCEPT !.title = job.title] ELSE db[i]],
        result |-> FALSE]
  ELSE [db |-> Append(db, JobRow(Len(db) + 1, job)), result |-> TRUE]

(* INSERT OR IGNORE under UNIQUE(source, external_id); result.changes > 0 *)
insertJob(db, job) ==
  IF HasKey(db, job)
  THEN [db |-> db, result |-> FALSE]
  ELSE [db |-> Append(db, JobRow(Len(db) + 1, job)), result |-> TRUE]

IsUnanalyzed(row) == row.match_score = NULL

(* SELECT * FROM jobs WHERE match_score IS NULL (table scan, rowid order) *)
getUnanalyzedJobs(db) == Filter(db, IsUnanalyzed)

(* UPDATE jobs SET match_score = ?, match_reasoning = ? WHERE id = ? *)
updateJobAnalysis(db, id, score, reasoning) ==
  [i \in DOMAIN db |->
     IF db[i].id = id
     THEN [db[i] EXCEPT !.match_score = Some(score), !.match_reasoning = reasoning]
     ELSE db[i]]

EligibleStrict(row) ==
  row.notified = 0 /\ row.match_score # NULL /\ row.match_score[1] > minMatchScore

(* WHERE notified = 0 AND match_score IS NOT NULL AND match_score >= ? *)
Eligible(row) ==
  row.notified = 0 /\ row.match_score # NULL /\ row.match_score[1] >= minMatchScore

IsDescending(s) ==
  \A i \in 1 .. Len(s) - 1 : s[i].match_score[1] >= s[i + 1].match_score[1]

IsOrderingOf(s, rows) ==
  /\ Len(s) = Len(rows)
  /\ \A i \in DOMAIN rows : \E j \in DOMAIN s : s[j] = rows[i]

Orderings(rows) ==
  {s \in [1 .. Len(rows) -> {rows[i] : i \in DOMAIN rows}] : IsOrderingOf(s, rows)}

(* rows in any order: the query without ORDER BY match_score DESC *)
getUnnotifiedJobsUnordered(db) == Orderings(Filter(db, Eligible))

(* the query with > in place of >= *)
getUnnotifiedJobsStrict(db) ==
  {s \in Orderings(Filter(db, EligibleStrict)) : IsDescending(s)}

EligibleAgain(row) ==
  row.match_score # NULL /\ row.match_score[1] >= minMatchScore

(* the query without notified = 0 *)
getUnnotifiedJobsAgain(db) ==
  {s \in Orderings(Filter(db, EligibleAgain)) : IsDescending(s)}

(* getUnnotifiedJobs(minScore): the possible result lists; the order of    *)
(* rows with equal scores is not fixed by ORDER BY match_score DESC        *)
getUnnotifiedJobs(db) ==
  {s \in Orderings(Filter(db, Eligible)) : IsDescending(s)}

(* DELETE FROM jobs WHERE id = ? in place of the UPDATE *)
markNotifiedDelete(db, id) ==
  LET n == CHOOSE i \in DOMAIN db : db[i].id = id
  IN [k \in 1 .. Len(db) - 1 |-> IF k < n THEN db[k] ELSE db[k + 1]]

(* the UPDATE matching no row *)
markNotifiedNone(db, id) == db

(* UPDATE jobs SET notified = 1 WHERE id = ? *)
markNotified(db, id) ==
  [i \in DOMAIN db |-> IF db[i].id = id THEN [db[i] EXCEPT !.notified = 1] ELSE db[i]]

(* INSERT OR REPLACE INTO bot_chats (chat_id, active) VALUES (?, 1) *)
registerChat(tbl, chatId) == [tbl EXCEPT ![chatId] = "active"]

(* UPDATE bot_chats SET active = 0 WHERE chat_id = ? *)
deactivateChat(tbl, chatId) ==
  IF tbl[chatId] = "absent" THEN tbl ELSE [tbl EXCEPT ![chatId] = "inactive"]

RECURSIVE SortedSeq(_)
SortedSeq(S) ==
  IF S = {} THEN << >>
  ELSE LET m == CHOOSE x \in S : \A y \in S : x <= y
       IN << m >> \o SortedSeq(S \ {m})

(* SELECT chat_id FROM bot_chats WHERE active = 1 *)
getActiveChats(tbl) == SortedSeq({c \in ChatIds : tbl[c] = "active"})

(* ======================= ai/analyzer.ts ======================= *)

(* what one chat.completions.create call can do, and for a response what   *)
(* JSON.parse(content) holds: the object is returned as it is, so its      *)
(* reasoning can be null                                                   *)
ScorerOutcomes ==
  [kind : {"ok"}, score : Scores, reasoning : {Some("reasoning"), NULL}]
    \cup [kind : {"rate_limit", "insufficient_quota", "error"}, score : {0},
          reasoning : {NULL}]

(* callWithRetry with the retry branch removed *)
callWithRetryNoRetry(attempt, kind) ==
  IF kind = "ok" THEN [do |-> "return", delay |-> 0]
  ELSE IF kind = "insufficient_quota" THEN [do |-> "quota", delay |-> 0]
  ELSE [do |-> "throw", delay |-> 0]

(* callWithRetry with a constant delay *)
callWithRetryFlatDelay(attempt, kind) ==
  IF kind = "ok" THEN [do |-> "return", delay |-> 0]
  ELSE IF kind = "insufficient_quota" THEN [do |-> "quota", delay |-> 0]
  ELSE IF kind = "rate_limit" /\ attempt < MAX_RETRIES
       THEN [do |-> "retry", delay |-> RETRY_BASE_MS]
  ELSE [do |-> "throw", delay |-> 0]

(* callWithRetry that retries a 429 whatever its code *)
callWithRetryQuotaRetried(attempt, kind) ==
  IF kind = "ok" THEN [do |-> "return", delay |-> 0]
  ELSE IF kind \in {"rate_limit", "insufficient_quota"} /\ attempt < MAX_RETRIES
       THEN [do |-> "retry", delay |-> RETRY_BASE_MS * Pow2(attempt)]
  ELSE [do |-> "throw", delay |-> 0]

(* callWithRetry that swallows an error and returns a result for it, as    *)
(* the analyzeJob of the first version did (score 0)                       *)
callWithRetrySwallowed(attempt, kind) ==
  IF kind \in {"ok", "error"} THEN [do |-> "return", delay |-> 0]
  ELSE IF kind = "insufficient_quota" THEN [do |-> "quota", delay |-> 0]
  ELSE IF attempt < MAX_RETRIES
       THEN [do |-> "retry", delay |-> RETRY_BASE_MS * Pow2(attempt)]
  ELSE [do |-> "throw", delay |-> 0]

(* callWithRetry with the exponent one too high *)
callWithRetryShifted(attempt, kind) ==
  IF kind = "ok" THEN [do |-> "return", delay |-> 0]
  ELSE IF kind = "insufficient_quota" THEN [do |-> "quota", delay |-> 0]
  ELSE IF kind = "rate_limit" /\ attempt < MAX_RETRIES
       THEN [do |-> "retry", delay |-> RETRY_BASE_MS * Pow2(attempt + 1)]
  ELSE [do |-> "throw", delay |-> 0]

(* callWithRetry that retries a rate limit on every attempt *)
callWithRetryEveryAttempt(attempt, kind) ==
  IF kind = "ok" THEN [do |-> "return", delay |-> 0]
  ELSE IF kind = "insufficient_quota" THEN [do |-> "quota", delay |-> 0]
  ELSE IF kind = "rate_limit"
       THEN [do |-> "retry", delay |-> RETRY_BASE_MS * Pow2(attempt)]
  ELSE [do |-> "throw", delay |-> 0]

(* callWithRetry that retries whatever fn() throws *)
callWithRetryAnyError(attempt, kind) ==
  IF kind = "ok" THEN [do |-> "return", delay |-> 0]
  ELSE IF kind = "insufficient_quota" THEN [do |-> "quota", delay |-> 0]
  ELSE IF attempt < MAX_RETRIES
       THEN [do |-> "retry", delay |-> RETRY_BASE_MS * Pow2(attempt)]
  ELSE [do |-> "throw", delay |-> 0]

(* one iteration of callWithRetry's loop, attempt = 0 .. MAX_RETRIES:      *)
(* what it does with the outcome of fn()                                   *)
callWithRetry(attempt, kind) ==
  IF kind = "ok" THEN [do |-> "return", delay |-> 0]
  ELSE IF kind \in {"rate_limit", "insufficient_quota"}
       THEN IF kind = "insufficient_quota" THEN [do |-> "quota", delay |-> 0]
            ELSE IF attempt < MAX_RETRIES
                 THEN [do |-> "retry", delay |-> RETRY_BASE_MS * Pow2(attempt)]
                 ELSE [do |-> "throw", delay |-> 0]
       ELSE [do |-> "throw", delay |-> 0]

(* ======================= scheduler.ts ======================= *)

VARIABLES
  jobs,        \* table jobs, in rowid order
  bot_chats,   \* table bot_chats: chat id -> "absent" | "active" | "inactive"
  cyc,         \* the runSearchCycle invocations: slot -> frame
  limits,      \* what the environment does in this behaviour, at most
  used,        \* what it has done so far
  ins,         \* history: per posting key, what insertJob returned and what was counted
  scoreWrites, \* history: per row, how many times updateJobAnalysis wrote it
  seenKeys,    \* history: the keys of the postings insertJob has been through so far
  sends,       \* history: per row, the chats it was delivered to and the cycles that sent it
  failedIn     \* history: << row, n >> when the scoring of the row failed in invocation n

vars == << jobs, bot_chats, cyc, limits, used, ins, scoreWrites, seenKeys, sends, failedIn >>

(* getConfig().sites *)
Sites == limits.sites

SiteNames == {Sites[i].name : i \in DOMAIN Sites}

Keys == SiteNames \X ExtIds

(* environments explored: overlapping invocations on short fetches with a  *)
(* chat command or with a failure; successive invocations; one invocation  *)
(* with many postings and two failures; with many ids per source; with     *)
(* many failures; with many chat commands and long fetches; with a scorer  *)
(* that returns a score outside 0-100; with a scorer that returns a null   *)
(* reasoning and sources that change what they say about a posting; with a *)
(* configuration that enables a site without a parser                      *)
Limits ==
  {[cycles |-> 2, overlap |-> TRUE, faults |-> 0, cmds |-> 1, fetch |-> 1, ids |-> 1, jobs |-> 2,
    scores |-> {40, 70}, reply |-> FALSE, nulls |-> FALSE, titles |-> {"t1"}, sites |-> SitesShipped],
   [cycles |-> 2, overlap |-> TRUE, faults |-> 1, cmds |-> 0, fetch |-> 1, ids |-> 1, jobs |-> 2,
    scores |-> {40, 70}, reply |-> FALSE, nulls |-> FALSE, titles |-> {"t1"}, sites |-> SitesShipped],
   [cycles |-> MaxCycles, overlap |-> FALSE, faults |-> 1, cmds |-> 0, fetch |-> 2, ids |-> 1, jobs |-> 2,
    scores |-> {40, 70}, reply |-> FALSE, nulls |-> FALSE, titles |-> {"t1"}, sites |-> SitesShipped],
   [cycles |-> 1, overlap |-> FALSE, faults |-> 2, cmds |-> 1, fetch |-> 2, ids |-> 2, jobs |-> MaxJobs,
    scores |-> {40, 70}, reply |-> FALSE, nulls |-> FALSE, titles |-> {"t1"}, sites |-> SitesShipped],
   [cycles |-> 1, overlap |-> FALSE, faults |-> 0, cmds |-> 1, fetch |-> 2, ids |-> NumIds, jobs |-> 3,
    scores |-> InRange, reply |-> FALSE, nulls |-> FALSE, titles |-> {"t1"}, sites |-> SitesShipped],
   [cycles |-> 1, overlap |-> FALSE, faults |-> MaxFaults, cmds |-> 1, fetch |-> 1, ids |-> 1, jobs |-> 2,
    scores |-> InRange, reply |-> TRUE, nulls |-> FALSE, titles |-> {"t1"}, sites |-> SitesShipped],
   [cycles |-> 1, overlap |-> FALSE, faults |-> 1, cmds |-> MaxCmds, fetch |-> MaxFetch, ids |-> 1, jobs |-> 2,
    scores |-> {40, 70}, reply |-> TRUE, nulls |-> FALSE, titles |-> {"t1"}, sites |-> SitesShipped],
   [cycles |-> 2, overlap |-> FALSE, faults |-> 0, cmds |-> 1, fetch |-> 1, ids |-> 1, jobs |-> 2,
    scores |-> {70} \cup OutOfRange, reply |-> TRUE, nulls |-> FALSE, titles |-> {"t1"}, sites |-> SitesShipped],
   [cycles |-> 2, overlap |-> FALSE, faults |-> 1, cmds |-> 1, fetch |-> 1, ids |-> 1, jobs |-> 2,
    scores |-> {70}, reply |-> FALSE, nulls |-> TRUE, titles |-> Titles, sites |-> SitesShipped],
   [cycles |-> 1, overlap |-> FALSE, faults |-> 1, cmds |-> 0, fetch |-> 1, ids |-> 1, jobs |-> 2,
    scores |-> {70}, reply |-> TRUE, nulls |-> FALSE, titles |-> {"t1"}, sites |-> SitesUnregistered]}

(* no send of the row so far *)
NoSends == [ok |-> {}, twice |-> {}, by |-> {}]

(* history of a settled send of row id to chat by the cycle numbered nth *)
LogSend(h, id, chat, ok, nth) ==
  [h EXCEPT ![id] = [ok |-> IF ok THEN @.ok \cup {chat} ELSE @.ok,
                     twice |-> IF ok /\ chat \in @.ok THEN @.twice \cup {chat} ELSE @.twice,
                     by |-> @.by \cup {nth}]]

EmptyReport ==
  [sites |-> << >>, totalFetched |-> 0, totalNew |-> 0, totalDuplicates |-> 0,
   analyzed |-> 0, analysisFailed |-> 0, quotaExhausted |-> FALSE, notified |-> 0]

(* the frame of one invocation: pc .. chatIdx are the locals of            *)
(* runSearchCycle and notifyJob, the fields after them are history         *)
IdleCycle ==
  [pc |-> "idle", report |-> EmptyReport,
   enabledSites |-> << >>, siteIdx |-> 0,
   unanalyzed |-> << >>, jobIdx |-> 0, attempt |-> 0,
   toNotify |-> << >>, nIdx |-> 0, chats |-> << >>, chatIdx |-> 0,
   nth |-> 0, fetchLog |-> << >>, listed |-> << >>, called |-> {}, okAt |-> {},
   scored |-> {}, quotaAt |-> 0, callIdx |-> 0, calls |-> << >>, waits |-> << >>,
   dispatched |-> << >>, sendLog |-> << >>, overlapped |-> FALSE, newData |-> FALSE,
   unscored0 |-> 0, unnotified0 |-> 0, stageC |-> FALSE,
   seenNotified |-> {}, threw |-> {}, waiting |-> {}, storeThrew |-> {}, text |-> NULL]

(* the rows for which this invocation called notifyJob and notifyJob       *)
(* returned at `if (chats.length === 0) return`: dispatched, no send made, *)
(* no exception                                                            *)
SilentIn(c) ==
  {i \in {c.dispatched[k] : k \in DOMAIN c.dispatched} :
     i \notin c.threw /\ \A k \in DOMAIN c.sendLog : c.sendLog[k].job # i}

InProgress(c) == c.pc \in {"fetch", "score", "backoff", "send"}

IsEnabled(site) == site.enabled

(* config.sites without the filter *)
enabledSitesAll == [i \in DOMAIN Sites |-> Sites[i].name]

(* config.sites.filter(s => s.enabled) *)
enabledSites ==
  LET en == Filter(Sites, IsEnabled) IN [i \in DOMAIN en |-> en[i].name]

(* return report: the locals are gone, the report is with the caller *)
Finish(c) ==
  [c EXCEPT !.pc = "done", !.enabledSites = << >>, !.siteIdx = 0,
            !.unanalyzed = << >>, !.jobIdx = 0, !.attempt = 0,
            !.nIdx = 0, !.chats = << >>, !.chatIdx = 0]

(* Math.round(score / 10) for an integer score *)
Round10(score) == (score + 5) \div 10

(* notifyJob's scoreBar: String.prototype.repeat throws a RangeError on a   *)
(* negative count                                                          *)
scoreBarThrows(row) ==
  LET score == IF row.match_score = NULL THEN 0 ELSE row.match_score[1]
  IN Round10(score) < 0 \/ 10 - Round10(score) < 0

(* --- stage 3: for (const job of toNotify), from index n to the next await: *)
(* notifyJob(job) returns at once when no chat is active, throws into the   *)
(* stage 3 catch when the score bar cannot be built, else sends            *)
RECURSIVE NotifyFrom(_, _, _)
NotifyFrom(c, n, tbl) ==
  IF n > Len(c.toNotify) THEN Finish(c)
  ELSE LET chats == getActiveChats(tbl)
           d == [c EXCEPT !.dispatched = Append(@, c.toNotify[n].id)]
       IN IF chats = << >>
          THEN NotifyFrom([d EXCEPT !.report.notified = @ + 1], n + 1, tbl)
          ELSE IF scoreBarThrows(c.toNotify[n])
          THEN NotifyFrom([d EXCEPT !.threw = @ \cup {c.toNotify[n].id}], n + 1, tbl)
          ELSE [d EXCEPT !.pc = "send", !.nIdx = n, !.chats = chats, !.chatIdx = 1]

(* const toNotify = getUnnotifiedJobs(config.search.minMatchScore) *)
EnterStageC(c, db, tbl) ==
  {NotifyFrom([c EXCEPT !.toNotify = l, !.stageC = TRUE,
                        !.seenNotified = {i \in DOMAIN db : db[i].notified = 1}],
              1, tbl) :
     l \in getUnnotifiedJobs(db)}

(* --- stage 2: for (const job of unanalyzed), at index j: the scorer is called --- *)
ScoreNext(c, j, db, tbl) ==
  IF j > Len(c.unanalyzed) THEN EnterStageC(c, db, tbl)
  ELSE {[c EXCEPT !.pc = "score", !.jobIdx = j, !.attempt = 0, !.called = @ \cup {j}]}

(* const unanalyzed = getUnanalyzedJobs() *)
EnterStageB(c, db, tbl) ==
  LET u == getUnanalyzedJobs(db)
  IN ScoreNext([c EXCEPT !.unanalyzed = u, !.listed = [i \in DOMAIN u |-> u[i].id]],
               1, db, tbl)

NoParserReport(name) ==
  [site |-> name, fetched |-> 0, newJobs |-> 0, duplicates |-> 0,
   error |-> Some("No parser registered")]

(* stage 1 with break in place of continue: a site without a parser ends   *)
(* the loop                                                                *)
FetchFromStop(c, i, db, tbl) ==
  IF i > Len(c.enabledSites) THEN EnterStageB(c, db, tbl)
  ELSE IF ~getParser(c.enabledSites[i])
       THEN EnterStageB([c EXCEPT !.report.sites = Append(@, NoParserReport(c.enabledSites[i])),
                                  !.fetchLog = Append(@, [site |-> c.enabledSites[i], failed |-> TRUE,
                                                          inserted |-> 0, base |-> 0, store |-> FALSE])],
                        db, tbl)
       ELSE {[c EXCEPT !.pc = "fetch", !.siteIdx = i]}

(* --- stage 1: for (const site of enabledSites), from index i to the next await --- *)
RECURSIVE FetchFrom(_, _, _, _)
FetchFrom(c, i, db, tbl) ==
  IF i > Len(c.enabledSites) THEN EnterStageB(c, db, tbl)
  ELSE IF ~getParser(c.enabledSites[i])
       THEN FetchFrom([c EXCEPT !.report.sites = Append(@, NoParserReport(c.enabledSites[i])),
                                !.fetchLog = Append(@, [site |-> c.enabledSites[i], failed |-> TRUE,
                                                        inserted |-> 0, base |-> 0, store |-> FALSE])],
                      i + 1, db, tbl)
       ELSE {[c EXCEPT !.pc = "fetch", !.siteIdx = i]}

(* report.sites.push(siteReport); report.total* += ...; next site *)
AfterSite(c, sr, db, tbl) ==
  FetchFrom([c EXCEPT !.report.sites = Append(@, sr),
                      !.report.totalFetched = @ + sr.fetched,
                      !.report.totalNew = @ + sr.newJobs,
                      !.report.totalDuplicates = @ + sr.duplicates],
            c.siteIdx + 1, db, tbl)

(* no try/catch around the fetch: the rejection leaves runSearchCycle *)
FetchUncaught(c, sr, msg, db, tbl) == {[c EXCEPT !.pc = "thrown"]}

(* a catch that gives up on the remaining sites *)
FetchCaughtBreak(c, sr, msg, db, tbl) ==
  EnterStageB([c EXCEPT !.report.sites = Append(@, [sr EXCEPT !.error = Some(msg)])],
              db, tbl)

(* a catch that pushes the site's report and continues, past the totals *)
FetchCaughtNoTotals(c, sr, msg, db, tbl) ==
  FetchFrom([c EXCEPT !.report.sites = Append(@, [sr EXCEPT !.error = Some(msg)])],
            c.siteIdx + 1, db, tbl)

(* catch (err) { siteReport.error = msg } of stage 1 *)
FetchCaught(c, sr, msg, db, tbl) ==
  AfterSite(c, [sr EXCEPT !.error = Some(msg)], db, tbl)

KeyOf(job) == << job.source, job.externalId >>

(* the two counters swapped *)
CountInsertSwapped(acc, job, isNew) ==
  IF isNew
  THEN [sr |-> [acc.sr EXCEPT !.duplicates = @ + 1],
        ins |-> [acc.ins EXCEPT ![KeyOf(job)].d = @ + 1]]
  ELSE [sr |-> [acc.sr EXCEPT !.newJobs = @ + 1],
        ins |-> [acc.ins EXCEPT ![KeyOf(job)].n = @ + 1]]

(* the else branch missing: a duplicate is not counted *)
CountInsertNewOnly(acc, job, isNew) ==
  IF isNew
  THEN [sr |-> [acc.sr EXCEPT !.newJobs = @ + 1],
        ins |-> [acc.ins EXCEPT ![KeyOf(job)].n = @ + 1]]
  ELSE [sr |-> acc.sr, ins |-> acc.ins]

(* if (isNew) siteReport.newJobs++ else siteReport.duplicates++;           *)
(* ins[key].n and .d count the increments made for the key                 *)
CountInsert(acc, job, isNew) ==
  IF isNew
  THEN [sr |-> [acc.sr EXCEPT !.newJobs = @ + 1],
        ins |-> [acc.ins EXCEPT ![KeyOf(job)].n = @ + 1]]
  ELSE [sr |-> [acc.sr EXCEPT !.duplicates = @ + 1],
        ins |-> [acc.ins EXCEPT ![KeyOf(job)].d = @ + 1]]

(* history of what insertJob returned for the key, whether the insert met  *)
(* a row that was already notified, and whether it met a row whose title   *)
(* differs from the posting's                                              *)
LogInsert(h, db, job, result) ==
  [h EXCEPT ![KeyOf(job)] =
     [@ EXCEPT !.t = @ + (IF result THEN 1 ELSE 0),
               !.f = @ + (IF result THEN 0 ELSE 1),
               !.hit = @ \/ \E i \in DOMAIN db :
                              /\ KeyOf([source |-> db[i].source,
                                        externalId |-> db[i].external_id]) = KeyOf(job)
                              /\ db[i].notified = 1,
               !.diff = @ \/ \E i \in DOMAIN db :
                               /\ db[i].source = job.source
                               /\ db[i].external_id = job.externalId
                               /\ db[i].title # job.title]]

(* history: the number of rows before the first row a fetch inserted (0   *)
(* when it inserted none)                                                  *)
InsertBase(db, after) == IF Len(after) = Len(db) THEN 0 ELSE Len(db)

(* for (const job of jobs) { const isNew = insertJob(...); ... } *)
RECURSIVE InsertAll(_, _, _)
InsertAll(js, k, acc) ==
  IF k > Len(js) THEN acc
  ELSE LET r == insertJob(acc.db, js[k])
           cnt == CountInsert([acc EXCEPT !.ins = LogInsert(@, acc.db, js[k], r.result)],
                              js[k], r.result)
       IN InsertAll(js, k + 1, [db |-> r.db, sr |-> cnt.sr, ins |-> cnt.ins])

(* the break on QuotaExhaustedError removed: quota counts as one more failure *)
AnalysisCaughtNoBreak(c, isQuota, db, tbl) ==
  ScoreNext([c EXCEPT !.report.quotaExhausted = @ \/ isQuota,
                      !.report.analysisFailed = @ + 1],
            c.jobIdx + 1, db, tbl)

(* the catch of stage 2 returning the report at once on quota exhaustion *)
AnalysisCaughtReturn(c, isQuota, db, tbl) ==
  IF isQuota
  THEN {Finish([c EXCEPT !.report.quotaExhausted = TRUE])}
  ELSE ScoreNext([c EXCEPT !.report.analysisFailed = @ + 1], c.jobIdx + 1, db, tbl)

(* the catch of stage 2 without report.analysisFailed++ *)
AnalysisCaughtUncounted(c, isQuota, db, tbl) ==
  IF isQuota
  THEN EnterStageC([c EXCEPT !.report.quotaExhausted = TRUE], db, tbl)
  ELSE ScoreNext(c, c.jobIdx + 1, db, tbl)

(* a stage 2 catch that handles quota exhaustion only and rethrows the rest *)
AnalysisCaughtRethrow(c, isQuota, db, tbl) ==
  IF isQuota
  THEN EnterStageC([c EXCEPT !.report.quotaExhausted = TRUE], db, tbl)
  ELSE {[c EXCEPT !.pc = "thrown"]}

(* catch (err) of stage 2 *)
AnalysisCaught(c, isQuota, db, tbl) ==
  IF isQuota
  THEN EnterStageC([c EXCEPT !.report.quotaExhausted = TRUE], db, tbl)
  ELSE ScoreNext([c EXCEPT !.report.analysisFailed = @ + 1], c.jobIdx + 1, db, tbl)

(* what a parser's search() can resolve with for a site: at most n postings *)
FetchResults(name, n, ids, titles) ==
  UNION {[1 .. m -> [source : {name}, externalId : 1 .. ids, title : titles]] : m \in 0 .. n}

JobKeys(js) == {KeyOf(js[i]) : i \in DOMAIN js}

Count(S) == Cardinality(S)

InitWith(L) ==
  /\ jobs = << >>
  /\ bot_chats = [c \in ChatIds |-> "absent"]
  /\ cyc = [p \in Procs |-> IdleCycle]
  /\ limits \in L
  /\ used = [cycles |-> 0, faults |-> 0, cmds |-> 0]
  /\ ins = [k \in Keys |-> [t |-> 0, f |-> 0, n |-> 0, d |-> 0, hit |-> FALSE, diff |-> FALSE]]
  /\ scoreWrites = << >>
  /\ seenKeys = {}
  /\ sends = << >>
  /\ failedIn = {}

Init == InitWith(Limits)

(* runSearchCycle() is called: by the cron task (startScheduler) or by the *)
(* /search handler through searchCallback; nothing checks for a running    *)
(* invocation.  Runs to the first await.                                   *)
StartCycle(p) ==
  /\ used.cycles < limits.cycles
  /\ ~InProgress(cyc[p])
  /\ \A q \in Procs : q < p => InProgress(cyc[q])
  /\ limits.overlap \/ \A q \in Procs : ~InProgress(cyc[q])
  /\ LET other == \E q \in Procs : q # p /\ InProgress(cyc[q])
         c0 == [IdleCycle EXCEPT
                  !.enabledSites = enabledSites,
                  !.nth = used.cycles + 1,
                  !.overlapped = other,
                  !.waiting = {i \in UNION {SilentIn(cyc[q]) : q \in {r \in Procs : cyc[r].pc = "done"}} :
                                 jobs[i].notified = 0},
                  !.unscored0 = Count({i \in DOMAIN jobs : jobs[i].match_score = NULL}),
                  !.unnotified0 = Count({i \in DOMAIN jobs : jobs[i].notified = 0})]
     IN \E c1 \in FetchFrom(c0, 1, jobs, bot_chats) :
          cyc' = [q \in Procs |->
                    IF q = p THEN c1
                    ELSE IF InProgress(cyc[q]) THEN [cyc[q] EXCEPT !.overlapped = TRUE]
                    ELSE cyc[q]]
  /\ used' = [used EXCEPT !.cycles = @ + 1]
  /\ UNCHANGED << jobs, bot_chats, limits, ins, scoreWrites, seenKeys, sends, failedIn >>

(* cron.schedule(expression, async () => { await runSearchCycle() }) *)
SchedulerTick(p) == StartCycle(p)

(* bot.command('search'): const report = await searchCallback() *)
SearchCommand(p) == StartCycle(p)

NewSiteReport(name) ==
  [site |-> name, fetched |-> 0, newJobs |-> 0, duplicates |-> 0, error |-> NULL]

(* await parser.search(...) rejects *)
FetchFails(p) ==
  /\ cyc[p].pc = "fetch"
  /\ used.faults < limits.faults
  /\ LET c == cyc[p]
         name == c.enabledSites[c.siteIdx]
         c1 == [c EXCEPT !.fetchLog = Append(@, [site |-> name, failed |-> TRUE,
                                                 inserted |-> 0, base |-> 0, store |-> FALSE])]
     IN \E c2 \in FetchCaught(c1, NewSiteReport(name), "timeout", jobs, bot_chats) :
          cyc' = [cyc EXCEPT ![p] = c2]
  /\ used' = [used EXCEPT !.faults = @ + 1]
  /\ UNCHANGED << jobs, bot_chats, limits, ins, scoreWrites, seenKeys, sends, failedIn >>

(* await parser.search(...) resolves: the insert loop, the site's report,  *)
(* then on to the next await                                               *)
FetchReturns(p) ==
  /\ cyc[p].pc = "fetch"
  /\ LET c == cyc[p]
         name == c.enabledSites[c.siteIdx]
     IN \E js \in FetchResults(name, limits.fetch, limits.ids, limits.titles) :
          /\ Count(seenKeys \cup JobKeys(js)) <= limits.jobs
          /\ LET acc == InsertAll(js, 1, [db |-> jobs,
                                          sr |-> [NewSiteReport(name) EXCEPT !.fetched = Len(js)],
                                          ins |-> ins])
                 c1 == [c EXCEPT
                          !.fetchLog = Append(@, [site |-> name, failed |-> FALSE,
                                                  inserted |-> Len(acc.db) - Len(jobs),
                                                  base |-> InsertBase(jobs, acc.db),
                                                  store |-> FALSE]),
                          !.newData = @ \/ ~(JobKeys(js) \subseteq seenKeys)]
             IN /\ jobs' = acc.db
                /\ ins' = acc.ins
                /\ scoreWrites' = [i \in DOMAIN acc.db |->
                                     IF i \in DOMAIN scoreWrites THEN scoreWrites[i] ELSE 0]
                /\ seenKeys' = seenKeys \cup JobKeys(js)
                /\ sends' = [i \in DOMAIN acc.db |->
                               IF i \in DOMAIN sends THEN sends[i] ELSE NoSends]
                /\ \E c2 \in AfterSite(c1, acc.sr, acc.db, bot_chats) :
                     cyc' = [cyc EXCEPT ![p] = c2]
  /\ UNCHANGED << bot_chats, limits, used, failedIn >>

(* await parser.search(...) resolves and the store throws in the insert of *)
(* the k-th posting: the rows before it are in, the stage 1 catch takes    *)
(* the site's report as it stands                                          *)
InsertThrows(p) ==
  /\ cyc[p].pc = "fetch"
  /\ used.faults < limits.faults
  /\ LET c == cyc[p]
         name == c.enabledSites[c.siteIdx]
     IN \E js \in FetchResults(name, limits.fetch, limits.ids, limits.titles) :
        \E k \in DOMAIN js :
          LET done == SubSeq(js, 1, k - 1)
          IN /\ Count(seenKeys \cup JobKeys(done)) <= limits.jobs
             /\ LET acc == InsertAll(done, 1, [db |-> jobs,
                                               sr |-> [NewSiteReport(name) EXCEPT !.fetched = Len(js)],
                                               ins |-> ins])
                    c1 == [c EXCEPT
                             !.fetchLog = Append(@, [site |-> name, failed |-> TRUE,
                                                     inserted |-> Len(acc.db) - Len(jobs),
                                                     base |-> InsertBase(jobs, acc.db),
                                                     store |-> TRUE]),
                             !.newData = @ \/ ~(JobKeys(js) \subseteq seenKeys)]
                IN /\ jobs' = acc.db
                   /\ ins' = acc.ins
                   /\ scoreWrites' = [i \in DOMAIN acc.db |->
                                        IF i \in DOMAIN scoreWrites THEN scoreWrites[i] ELSE 0]
                   /\ seenKeys' = seenKeys \cup JobKeys(done)
                   /\ sends' = [i \in DOMAIN acc.db |->
                                  IF i \in DOMAIN sends THEN sends[i] ELSE NoSends]
                   /\ \E c2 \in FetchCaught(c1, acc.sr, "store", acc.db, bot_chats) :
                        cyc' = [cyc EXCEPT ![p] = c2]
  /\ used' = [used EXCEPT !.faults = @ + 1]
  /\ UNCHANGED << bot_chats, limits, failedIn >>

(* history of the scorer calls made for the posting at c.jobIdx *)
LogCall(c, kind) ==
  LET d == [c EXCEPT !.okAt = IF kind = "ok" THEN @ \cup {c.jobIdx} ELSE @,
                     !.quotaAt = IF kind = "insufficient_quota" THEN c.jobIdx ELSE @]
  IN IF c.attempt = 0
     THEN [d EXCEPT !.callIdx = c.jobIdx, !.calls = << kind >>, !.waits = << >>]
     ELSE [d EXCEPT !.calls = Append(@, kind)]

(* await getClient().chat.completions.create(...) settles inside           *)
(* callWithRetry; analyzeJob returns or throws into the stage 2 try/catch; *)
(* on a return updateJobAnalysis runs in the same try and may throw        *)
(* (thrown) into the same catch                                            *)
ScorerReturns(p) ==
  /\ cyc[p].pc = "score"
  /\ LET c == cyc[p]
         job == c.unanalyzed[c.jobIdx]
     IN \E o \in ScorerOutcomes, thrown \in BOOLEAN :
          /\ thrown => o.kind = "ok"
          /\ (o.kind # "ok" \/ thrown) => used.faults < limits.faults
          /\ o.kind = "ok" => o.score \in limits.scores
          /\ (o.kind = "ok" /\ o.reasoning = NULL) => limits.nulls
          /\ used' = IF o.kind = "ok" /\ ~thrown THEN used ELSE [used EXCEPT !.faults = @ + 1]
          /\ LET step == callWithRetry(c.attempt, o.kind)
                 c1 == LogCall(c, o.kind)
             IN CASE step.do = "return" /\ ~thrown ->
                       /\ jobs' = updateJobAnalysis(jobs, job.id, o.score, o.reasoning)
                       /\ scoreWrites' = [scoreWrites EXCEPT ![job.id] = @ + 1]
                       /\ failedIn' = failedIn
                       /\ \E c2 \in ScoreNext([c1 EXCEPT !.report.analyzed = @ + 1,
                                                          !.scored = @ \cup {c.jobIdx}],
                                              c.jobIdx + 1, jobs', bot_chats) :
                            cyc' = [cyc EXCEPT ![p] = c2]
                  [] step.do = "retry" ->
                       /\ cyc' = [cyc EXCEPT ![p] =
                                    [c1 EXCEPT !.pc = "backoff",
                                               !.waits = Append(@, step.delay)]]
                       /\ UNCHANGED << jobs, scoreWrites, failedIn >>
                  [] OTHER ->
                       /\ \E c2 \in AnalysisCaught([c1 EXCEPT !.storeThrew =
                                                       IF thrown THEN @ \cup {c.jobIdx} ELSE @],
                                                    step.do = "quota", jobs, bot_chats) :
                            cyc' = [cyc EXCEPT ![p] = c2]
                       /\ failedIn' = IF step.do = "quota" THEN failedIn
                                      ELSE failedIn \cup {<< job.id, c.nth >>}
                       /\ UNCHANGED << jobs, scoreWrites >>
  /\ UNCHANGED << bot_chats, limits, ins, seenKeys, sends >>

(* await new Promise(r => setTimeout(r, delay)); continue *)
BackoffElapsed(p) ==
  /\ cyc[p].pc = "backoff"
  /\ cyc' = [cyc EXCEPT ![p] = [@ EXCEPT !.pc = "score", !.attempt = @ + 1]]
  /\ UNCHANGED << jobs, bot_chats, limits, used, ins, scoreWrites, seenKeys, sends, failedIn >>

(* notifyJob without the try/catch in its loop: a rejected sendMessage      *)
(* leaves notifyJob and is caught by stage 3, which takes the next posting *)
SendReturnsAbort(p) ==
  /\ cyc[p].pc = "send"
  /\ LET c == cyc[p]
         job == c.toNotify[c.nIdx]
     IN \E ok \in BOOLEAN :
          /\ ~ok => used.faults < limits.faults
          /\ used' = IF ok THEN used ELSE [used EXCEPT !.faults = @ + 1]
          /\ jobs' = IF ok THEN markNotified(jobs, job.id) ELSE jobs
          /\ sends' = LogSend(sends, job.id, c.chats[c.chatIdx], ok, c.nth)
          /\ LET c1 == [c EXCEPT !.sendLog = Append(@, [job |-> job.id,
                                                         chat |-> c.chats[c.chatIdx],
                                                         ok |-> ok])]
             IN cyc' = [cyc EXCEPT ![p] =
                          IF ~ok THEN NotifyFrom(c1, c.nIdx + 1, bot_chats)
                          ELSE IF c.chatIdx < Len(c.chats)
                          THEN [c1 EXCEPT !.chatIdx = @ + 1]
                          ELSE NotifyFrom([c1 EXCEPT !.report.notified = @ + 1],
                                          c.nIdx + 1, bot_chats)]
  /\ UNCHANGED << bot_chats, limits, ins, scoreWrites, seenKeys, failedIn >>

(* notifyJob with markNotified after the try/catch: the row is marked on    *)
(* the first send attempted, whether it succeeded or not                   *)
SendReturnsMarkAlways(p) ==
  /\ cyc[p].pc = "send"
  /\ LET c == cyc[p]
         job == c.toNotify[c.nIdx]
     IN \E ok \in BOOLEAN :
          /\ ~ok => used.faults < limits.faults
          /\ used' = IF ok THEN used ELSE [used EXCEPT !.faults = @ + 1]
          /\ jobs' = markNotified(jobs, job.id)
          /\ sends' = LogSend(sends, job.id, c.chats[c.chatIdx], ok, c.nth)
          /\ LET c1 == [c EXCEPT !.sendLog = Append(@, [job |-> job.id,
                                                         chat |-> c.chats[c.chatIdx],
                                                         ok |-> ok])]
             IN cyc' = [cyc EXCEPT ![p] =
                          IF c.chatIdx < Len(c.chats)
                          THEN [c1 EXCEPT !.chatIdx = @ + 1]
                          ELSE NotifyFrom([c1 EXCEPT !.report.notified = @ + 1],
                                          c.nIdx + 1, bot_chats)]
  /\ UNCHANGED << bot_chats, limits, ins, scoreWrites, seenKeys, failedIn >>

(* notifyJob: await bot.telegram.sendMessage(chatId, ...) settles;         *)
(* markNotified on success, the error is logged otherwise                  *)
SendReturns(p) ==
  /\ cyc[p].pc = "send"
  /\ LET c == cyc[p]
         job == c.toNotify[c.nIdx]
     IN \E ok \in BOOLEAN :
          /\ ~ok => used.faults < limits.faults
          /\ used' = IF ok THEN used ELSE [used EXCEPT !.faults = @ + 1]
          /\ jobs' = IF ok THEN markNotified(jobs, job.id) ELSE jobs
          /\ sends' = LogSend(sends, job.id, c.chats[c.chatIdx], ok, c.nth)
          /\ LET c1 == [c EXCEPT !.sendLog = Append(@, [job |-> job.id,
                                                         chat |-> c.chats[c.chatIdx],
                                                         ok |-> ok])]
             IN cyc' = [cyc EXCEPT ![p] =
                          IF c.chatIdx < Len(c.chats)
                          THEN [c1 EXCEPT !.chatIdx = @ + 1]
                          ELSE NotifyFrom([c1 EXCEPT !.report.notified = @ + 1],
                                          c.nIdx + 1, bot_chats)]
  /\ UNCHANGED << bot_chats, limits, ins, scoreWrites, seenKeys, failedIn >>

Line(k, s, n) == [k |-> k, s |-> s, n |-> n]

RECURSIVE SiteLines(_)
SiteLines(sites) ==
  IF sites = << >> THEN << >>
  ELSE LET site == Head(sites)
       IN (IF site.error # NULL
           THEN << Line("failed", site.site, 0), Line("Error", site.error[1], 0) >>
           ELSE << Line("ok", site.site, 0),
                   Line("Fetched", "", site.fetched), Line("New", "", site.newJobs),
                   Line("Duplicates", "", site.duplicates) >>)
          \o SiteLines(Tail(sites))

(* formatReport that empties report.sites while reading it (shift()) *)
formatReportShifting(report) ==
  [text |-> << Line("Search Report", "", 0) >> \o SiteLines(report.sites),
   report |-> [report EXCEPT !.sites = << >>]]

(* formatReport(report): the text it returns, line by line (the duration   *)
(* line without its value), and the report object as the call leaves it    *)
formatReport(report) ==
  [text |->
     << Line("Search Report", "", 0) >>
       \o SiteLines(report.sites)
       \o << Line("", "", 0), Line("Total:", "", 0),
             Line("Fetched", "", report.totalFetched),
             Line("New", "", report.totalNew),
             Line("Duplicates", "", report.totalDuplicates) >>
       \o (IF report.analyzed > 0 \/ report.analysisFailed > 0 \/ report.quotaExhausted
           THEN << Line("", "", 0), Line("AI Analysis:", "", 0),
                   Line("Analyzed", "", report.analyzed) >>
                  \o (IF report.analysisFailed > 0
                      THEN << Line("Failed", "", report.analysisFailed) >> ELSE << >>)
                  \o (IF report.quotaExhausted
                      THEN << Line("OpenAI quota exhausted", "", 0) >> ELSE << >>)
           ELSE << >>)
       \o (IF report.notified > 0
           THEN << Line("", "", 0), Line("Notifications sent", "", report.notified) >>
           ELSE << >>)
       \o << Line("", "", 0), Line("Duration", "", 0) >>,
   report |-> report]

(* bot.command('search'), after searchCallback() has returned the report:  *)
(* await ctx.reply(formatReport(report), ...)                              *)
ReplyReport(p) ==
  /\ limits.reply
  /\ cyc[p].pc = "done"
  /\ cyc[p].text = NULL
  /\ LET f == formatReport(cyc[p].report)
     IN cyc' = [cyc EXCEPT ![p] = [@ EXCEPT !.text = Some(f.text), !.report = f.report]]
  /\ UNCHANGED << jobs, bot_chats, limits, used, ins, scoreWrites, seenKeys, sends, failedIn >>

(* bot.command('start') *)
StartCmd(ch) ==
  /\ used.cmds < limits.cmds
  /\ bot_chats' = registerChat(bot_chats, ch)
  /\ used' = [used EXCEPT !.cmds = @ + 1]
  /\ UNCHANGED << jobs, cyc, limits, ins, scoreWrites, seenKeys, sends, failedIn >>

(* bot.command('stop') *)
StopCmd(ch) ==
  /\ used.cmds < limits.cmds
  /\ bot_chats' = deactivateChat(bot_chats, ch)
  /\ used' = [used EXCEPT !.cmds = @ + 1]
  /\ UNCHANGED << jobs, cyc, limits, ins, scoreWrites, seenKeys, sends, failedIn >>

Next ==
  \/ \E p \in Procs : SchedulerTick(p)
  \/ \E p \in Procs : SearchCommand(p)
  \/ \E p \in Procs : FetchFails(p)
  \/ \E p \in Procs : FetchReturns(p)
  \/ \E p \in Procs : InsertThrows(p)
  \/ \E p \in Procs : ScorerReturns(p)
  \/ \E p \in Procs : BackoffElapsed(p)
  \/ \E p \in Procs : SendReturns(p)
  \/ \E p \in Procs : ReplyReport(p)
  \/ \E ch \in ChatIds : StartCmd(ch)
  \/ \E ch \in ChatIds : StopCmd(ch)

Spec == Init /\ [][Next]_vars

(* one step of the invocation in slot p: an awaited call settles *)
CycleStep(p) ==
  \/ FetchFails(p) \/ FetchReturns(p) \/ InsertThrows(p)
  \/ ScorerReturns(p) \/ BackoffElapsed(p) \/ SendReturns(p)

(* environments explored for termination: one invocation with failures in  *)
(* every stage, and two overlapping invocations                            *)
FairLimits ==
  {[cycles |-> 1, overlap |-> FALSE, faults |-> MaxFaults, cmds |-> 1, fetch |-> 1, ids |-> 1, jobs |-> 2,
    scores |-> InRange, reply |-> TRUE, nulls |-> FALSE, titles |-> {"t1"}, sites |-> SitesShipped],
   [cycles |-> 2, overlap |-> TRUE, faults |-> 1, cmds |-> 0, fetch |-> 1, ids |-> 1, jobs |-> 1,
    scores |-> InRange, reply |-> FALSE, nulls |-> FALSE, titles |-> {"t1"}, sites |-> SitesShipped]}

FairInit == InitWith(FairLimits)

(* every awaited external call settles *)
FairSpec == FairInit /\ [][Next]_vars /\ \A p \in Procs : WF_vars(CycleStep(p))

(* ======================= properties ======================= *)

RowsOf(k) ==
  {i \in DOMAIN jobs : << jobs[i].source, jobs[i].external_id >> = k}

(* C1: for every posting key, the first insert returned true and was       *)
(* counted as new exactly once, every later insert returned false and was  *)
(* counted as a duplicate, and the store holds one row for the key.        *)
C1_DedupInvariant ==
  \A k \in Keys :
    /\ ins[k].t = (IF ins[k].t + ins[k].f > 0 THEN 1 ELSE 0)
    /\ ins[k].n = ins[k].t
    /\ ins[k].d = ins[k].f
    /\ Cardinality(RowsOf(k)) = ins[k].t

C1_Witness ==
  \E k \in Keys : ins[k].t = 1 /\ ins[k].d >= 2 /\ used.cycles = 2

StageADone(c) == c.pc \in {"score", "backoff", "send", "done"}

RECURSIVE SumInserted(_)
SumInserted(log) ==
  IF log = << >> THEN 0 ELSE Head(log).inserted + SumInserted(Tail(log))

(* C2: once stage 1 is over every enabled source has been fetched and has  *)
(* its sub-report; a source whose fetch failed has its error set, a source *)
(* whose fetch succeeded has no error and newJobs = the rows it added, and *)
(* totalNew is the number of rows added by the sources that succeeded.     *)
C2_PartialSourceFailure ==
  \A p \in Procs :
    LET c == cyc[p] IN
      StageADone(c) =>
        /\ Len(c.report.sites) = Len(enabledSites)
        /\ Len(c.fetchLog) = Len(enabledSites)
        /\ \A i \in DOMAIN c.fetchLog :
             /\ c.report.sites[i].site = enabledSites[i]
             /\ c.fetchLog[i].site = enabledSites[i]
             /\ c.fetchLog[i].failed => c.report.sites[i].error # NULL
             /\ ~c.fetchLog[i].failed =>
                  /\ c.report.sites[i].error = NULL
                  /\ c.report.sites[i].newJobs = c.fetchLog[i].inserted
        /\ c.report.totalNew = SumInserted(c.fetchLog)

C2_Witness ==
  \E p \in Procs :
    LET c == cyc[p] IN
      /\ c.pc = "done"
      /\ c.fetchLog[1].failed /\ c.report.sites[1].error # NULL
      /\ ~c.fetchLog[2].failed /\ c.report.sites[2].newJobs = 2
      /\ c.report.totalNew = 2

(* C3: an invocation that has started returns its report, whatever         *)
(* fetches, scorer calls and sends fail, and never ends by throwing.       *)
C3_AlwaysReturnsReport ==
  \A p \in Procs :
    /\ [](cyc[p].pc # "thrown")
    /\ (InProgress(cyc[p]) ~> cyc[p].pc = "done")

C3_Witness ==
  \E p \in Procs :
    LET c == cyc[p] IN
      /\ c.pc = "done"
      /\ \E i \in DOMAIN c.report.sites : c.report.sites[i].error # NULL
      /\ c.calls = << "rate_limit", "ok" >>
      /\ \E i \in DOMAIN c.sendLog : ~c.sendLog[i].ok

(* C4: when the scorer succeeded on positions 1..k-1 of the stage 2 list   *)
(* (each score returned and stored) and raised quota exhaustion at         *)
(* position k, stage 2 is over with exactly                                *)
(* positions 1..k-1 scored, quotaExhausted set, analyzed = k-1, the scorer *)
(* called for positions 1..k only, and (no invocation overlapping) rows    *)
(* k..N still without a score.                                             *)
C4_QuotaShortCircuit ==
  \A p \in Procs :
    LET c == cyc[p]
        k == c.quotaAt
    IN (k > 0 /\ c.okAt = 1 .. (k - 1) /\ c.storeThrew = {}) =>
         /\ c.stageC
         /\ c.report.quotaExhausted
         /\ c.report.analyzed = k - 1
         /\ c.scored = 1 .. (k - 1)
         /\ c.called = 1 .. k
         /\ (~c.overlapped /\ used.cycles = c.nth) =>
              \A i \in k .. Len(c.listed) : jobs[c.listed[i]].match_score = NULL

C4_Witness ==
  \E p \in Procs :
    LET c == cyc[p] IN
      /\ c.quotaAt = 2 /\ c.okAt = {1} /\ Len(c.listed) = 3
      /\ c.report.quotaExhausted /\ c.report.analyzed = 1
      /\ c.pc = "done"

(* C5: a posting whose scorer calls were rate-limited twice and then       *)
(* succeeded got exactly three calls, with waits of 3000 ms and 6000 ms    *)
(* between them, and (the store taking the score) is scored and counted in *)
(* analyzed.                                                               *)
C5_RetryBackoff ==
  \A p \in Procs :
    LET c == cyc[p] IN
      /\ c.calls = << "rate_limit", "rate_limit", "ok" >> =>
           /\ c.waits = << 3000, 6000 >>
           /\ c.callIdx \notin c.storeThrew =>
                /\ c.callIdx \in c.scored
                /\ jobs[c.listed[c.callIdx]].match_score # NULL
           /\ c.pc \in {"score", "backoff"} => c.jobIdx # c.callIdx
      /\ c.report.analyzed = Cardinality(c.scored)

C5_Witness ==
  \E p \in Procs :
    LET c == cyc[p] IN
      /\ c.calls = << "rate_limit", "rate_limit", "ok" >>
      /\ c.waits = << 3000, 6000 >>
      /\ c.storeThrew = {}
      /\ c.report.analyzed = 1

Ids(rows) == [i \in DOMAIN rows |-> rows[i].id]

IsPrefix(s, t) == Len(s) <= Len(t) /\ \A i \in DOMAIN s : s[i] = t[i]

(* the list holds each unnotified row scored at or above the minimum once, *)
(* and nothing else                                                        *)
SelectedExactly(l, db) ==
  /\ \A i \in DOMAIN l : l[i].id \in DOMAIN db /\ l[i] = db[l[i].id]
  /\ \A i, j \in DOMAIN l : l[i].id = l[j].id => i = j
  /\ {l[i].id : i \in DOMAIN l} =
       {i \in DOMAIN db : /\ db[i].notified = 0
                          /\ db[i].match_score # NULL
                          /\ db[i].match_score[1] >= minMatchScore}

(* C6: the list read at the start of stage 3 holds exactly the rows that   *)
(* are unnotified, scored and at or above the minimum, in descending score *)
(* order, and the postings are dispatched in the order of that list.       *)
C6_ThresholdFilter ==
  [][\A p \in Procs :
       LET c == cyc'[p] IN
         /\ (c.stageC /\ (~cyc[p].stageC \/ cyc[p].nth # c.nth)) =>
              SelectedExactly(c.toNotify, jobs')
         /\ c.stageC =>
              /\ \A i \in 1 .. Len(c.toNotify) - 1 :
                   c.toNotify[i].match_score[1] >= c.toNotify[i + 1].match_score[1]
              /\ \A i \in DOMAIN c.toNotify :
                   /\ c.toNotify[i].match_score # NULL
                   /\ c.toNotify[i].match_score[1] >= minMatchScore
              /\ IsPrefix(c.dispatched, Ids(c.toNotify))]_vars

C6_Witness ==
  \E p \in Procs :
    LET c == cyc[p] IN
      /\ c.pc = "done"
      /\ Len(jobs) = 3
      /\ \E i \in DOMAIN jobs : jobs[i].match_score = Some(40)
      /\ Len(c.toNotify) = 2
      /\ c.toNotify[1].match_score = Some(70)
      /\ c.toNotify[2].match_score = Some(50)
      /\ c.dispatched = Ids(c.toNotify)
      /\ Len(c.sendLog) = 2

AllZero(r) ==
  /\ r.totalFetched = 0 /\ r.totalNew = 0 /\ r.totalDuplicates = 0
  /\ r.analyzed = 0 /\ r.analysisFailed = 0 /\ r.notified = 0

SecondRun(c) ==
  c.pc = "done" /\ c.nth >= 2 /\ ~c.overlapped /\ ~c.newData

(* C7 as claimed: a run that follows a finished run and gets no new        *)
(* external data reports zero in every counter.                            *)
C7_AllCountersZero ==
  \A p \in Procs : SecondRun(cyc[p]) => AllZero(cyc[p].report)

NoSiteError(r) == \A i \in DOMAIN r.sites : r.sites[i].error = NULL

(* C7 amended: such a run reports totalNew = 0 and counts what it fetched  *)
(* as duplicates; it analyzes at most the postings the earlier run left    *)
(* unscored and dispatches at most those it left unnotified.               *)
C7_NoNewDataRun ==
  \A p \in Procs :
    LET c == cyc[p]
        r == c.report
    IN SecondRun(c) =>
         /\ r.totalNew = 0
         /\ r.totalDuplicates <= r.totalFetched
         /\ NoSiteError(r) => r.totalDuplicates = r.totalFetched
         /\ r.analyzed + r.analysisFailed <= c.unscored0
         /\ r.notified <= c.unnotified0

C7_Witness ==
  \E p \in Procs :
    LET c == cyc[p] IN
      /\ SecondRun(c)
      /\ c.report.totalDuplicates = 2
      /\ c.report.analyzed = 1
      /\ c.report.notified = 1

(* C8 as claimed: no row has its score written a second time. *)
C8_ScoreWrittenOnce ==
  \A i \in DOMAIN scoreWrites : scoreWrites[i] <= 1

(* C9: a row whose notified flag is 1 keeps it at 1 in every step,         *)
(* re-insertion of its key and a later score update included.              *)
C9_NotifiedNeverReset ==
  [][\A i \in DOMAIN jobs :
       jobs[i].notified = 1 => (i \in DOMAIN jobs' /\ jobs'[i].notified = 1)]_vars

C9_Witness ==
  \E i \in DOMAIN jobs :
    /\ jobs[i].notified = 1
    /\ ins[<< jobs[i].source, jobs[i].external_id >>].hit

(* C10 as claimed: at most one runSearchCycle invocation is in progress. *)
C10_SingleFlight ==
  Cardinality({p \in Procs : InProgress(cyc[p])}) <= 1

(* C11 as claimed: no posting is successfully sent to the same chat twice. *)
C11_DeliveredAtMostOnce ==
  \A i \in DOMAIN sends : sends[i].twice = {}

C14_NotifiedCountsDelivered ==
  \A p \in Procs :
    LET c == cyc[p] IN
      c.pc = "done" =>
        c.report.notified =
          Cardinality({c.sendLog[k].job : k \in {n \in DOMAIN c.sendLog : c.sendLog[n].ok}})

(* C15: in every invocation, once the unscored query has run or a scorer   *)
(* call has been made every enabled source's fetch has settled and has its *)
(* sub-report, and no fetch is pending; once the stage 3 query has run or  *)
(* a send has been made no scorer call is pending and stage 2 has called   *)
(* the scorer for its whole list or stopped on quota exhaustion.           *)
C15_StageOrdering ==
  \A p \in Procs :
    LET c == cyc[p]
        inB == c.pc \in {"score", "backoff"} \/ c.listed # << >> \/ c.called # {}
        inC == c.pc = "send" \/ c.stageC \/ c.dispatched # << >> \/ c.sendLog # << >>
    IN /\ inB \/ inC =>
            /\ c.pc # "fetch"
            /\ Len(c.fetchLog) = Len(enabledSites)
            /\ Len(c.report.sites) = Len(enabledSites)
       /\ inC =>
            /\ c.pc \notin {"score", "backoff"}
            /\ c.quotaAt # 0 \/ c.called = DOMAIN c.listed
            /\ c.quotaAt # 0 => c.called = 1 .. c.quotaAt
       /\ c.pc = "fetch" => Len(c.fetchLog) = c.siteIdx - 1

C15_Witness ==
  \E p \in Procs :
    LET c == cyc[p] IN
      /\ c.pc = "send"
      /\ c.fetchLog[1].failed
      /\ Len(c.listed) = 2 /\ c.quotaAt = 2

RECURSIVE SumField(_, _)
SumField(sites, f) ==
  IF sites = << >> THEN 0 ELSE Head(sites)[f] + SumField(Tail(sites), f)

(* C16: in every returned report the three totals are the sums of the      *)
(* per-source counts over all the sub-reports, those with an error too.    *)
C16_TotalsAreSums ==
  \A p \in Procs :
    LET r == cyc[p].report IN
      cyc[p].pc = "done" =>
        /\ r.totalFetched = SumField(r.sites, "fetched")
        /\ r.totalNew = SumField(r.sites, "newJobs")
        /\ r.totalDuplicates = SumField(r.sites, "duplicates")

C16_Witness ==
  \E p \in Procs :
    LET r == cyc[p].report IN
      /\ cyc[p].pc = "done"
      /\ r.sites[1].error # NULL /\ r.sites[1].fetched = 2 /\ r.sites[1].newJobs = 1
      /\ r.sites[2].error = NULL /\ r.sites[2].duplicates = 1
      /\ r.totalFetched = 4 /\ r.totalNew = 2 /\ r.totalDuplicates = 1

(* C17 as claimed: every stored match score is absent or within 0 .. 100. *)
C17_ScoreInRange ==
  \A i \in DOMAIN jobs :
    jobs[i].match_score = NULL
      \/ (jobs[i].match_score[1] >= 0 /\ jobs[i].match_score[1] <= 100)

C19_SendsOnlyToActive ==
  [][\A p \in Procs :
       /\ cyc'[p].pc = "send"
       /\ \/ cyc[p].pc # "send"
          \/ << cyc'[p].nIdx, cyc'[p].chatIdx >> # << cyc[p].nIdx, cyc[p].chatIdx >>
       => bot_chats'[cyc'[p].chats[cyc'[p].chatIdx]] = "active"]_vars

(* C20: when a scorer call for a posting is answered with account-quota    *)
(* exhaustion, on the first, second or third attempt, it is the last       *)
(* scorer call of the invocation: no call and no backoff wait follows it,  *)
(* the only waits are those of the rate-limited attempts before it, and    *)
(* quotaExhausted is set at once.                                          *)
C20_QuotaNeverRetried ==
  \A p \in Procs :
    LET c == cyc[p]
        n == Len(c.calls)
    IN n > 0 /\ c.calls[n] = "insufficient_quota" =>
         /\ c.pc \notin {"score", "backoff"}
         /\ c.report.quotaExhausted
         /\ c.quotaAt = c.callIdx
         /\ n <= MAX_RETRIES + 1
         /\ \A k \in 1 .. n - 1 : c.calls[k] = "rate_limit"
         /\ c.waits = [k \in 1 .. n - 1 |-> RETRY_BASE_MS * Pow2(k - 1)]

C20_Witness ==
  \E p \in Procs :
    LET c == cyc[p] IN
      /\ c.calls = << "rate_limit", "rate_limit", "insufficient_quota" >>
      /\ c.waits = << 3000, 6000 >>
      /\ c.report.quotaExhausted
      /\ c.pc = "done"

(* the scorer calls logged in the frame are those of a posting that took   *)
(* the failure path of stage 2: it is neither scored nor the posting that  *)
(* set the quota flag, every posting called before it is counted in        *)
(* analyzed or analysisFailed, and the loop has moved to the posting after *)
(* it (or to stage 3 when it was the last)                                 *)
TookFailurePath(c) ==
  /\ c.callIdx \notin c.scored
  /\ c.callIdx \notin c.okAt
  /\ c.quotaAt = 0
  /\ ~c.report.quotaExhausted
  /\ c.report.analysisFailed >= 1
  /\ c.report.analysisFailed + c.report.analyzed = c.callIdx
  /\ c.pc # "backoff"
  /\ c.pc = "score" => c.jobIdx = c.callIdx + 1 /\ c.attempt = 0
  /\ IF c.callIdx < Len(c.listed)
     THEN c.callIdx + 1 \in c.called
     ELSE c.stageC
  /\ (~c.overlapped /\ used.cycles = c.nth) =>
       /\ jobs[c.listed[c.callIdx]].match_score = NULL
       /\ jobs[c.listed[c.callIdx]].match_reasoning = NULL

(* C21: a posting gets at most MAX_RETRIES + 1 = 3 scorer calls in one     *)
(* invocation; when all three are answered with a transient rate limit the *)
(* waits between them were 3000 ms and 6000 ms, the posting takes the      *)
(* failure path (analysisFailed counts it, quotaExhausted stays false, the *)
(* row stays unscored) and stage 2 goes on with the next posting.          *)
C21_ThreeAttempts ==
  \A p \in Procs :
    LET c == cyc[p] IN
      /\ Len(c.calls) <= MAX_RETRIES + 1
      /\ Len(c.waits) <= MAX_RETRIES
      /\ c.calls = << "rate_limit", "rate_limit", "rate_limit" >> =>
           /\ c.waits = << RETRY_BASE_MS, 2 * RETRY_BASE_MS >>
           /\ TookFailurePath(c)

C21_Witness ==
  \E p \in Procs :
    LET c == cyc[p] IN
      /\ c.calls = << "rate_limit", "rate_limit", "rate_limit" >>
      /\ c.callIdx = 1 /\ c.jobIdx = 2 /\ c.pc = "score"
      /\ c.report.analysisFailed = 1
      /\ jobs[c.listed[1]].match_score = NULL

(* C22: a scorer error that is not a rate limit ends the calls for its     *)
(* posting: no retry and no wait follows it, and when it answers the first *)
(* attempt the posting got exactly one call. The posting takes the failure *)
(* path (analysisFailed counts it) and stage 2 goes on with the next one.  *)
C22_ErrorNotRetried ==
  \A p \in Procs :
    LET c == cyc[p]
        n == Len(c.calls)
    IN /\ \A k \in 1 .. n - 1 : c.calls[k] = "rate_limit"
       /\ (n > 0 /\ c.calls[n] = "error") =>
            /\ Len(c.waits) = n - 1
            /\ TookFailurePath(c)
       /\ (n > 0 /\ c.calls[1] = "error") => n = 1 /\ c.waits = << >>

C22_Witness ==
  \E p \in Procs :
    LET c == cyc[p] IN
      /\ c.calls = << "error" >>
      /\ c.callIdx = 1 /\ c.jobIdx = 2 /\ c.pc = "score"
      /\ c.report.analysisFailed = 1 /\ c.report.analyzed = 0

Range(s) == {s[i] : i \in DOMAIN s}

(* the last scorer call logged in the frame failed for good: an error, or  *)
(* a rate limit on the last attempt                                        *)
LastCallFailed(c) ==
  LET n == Len(c.calls)
  IN n > 0 /\ \/ c.calls[n] = "error"
              \/ c.calls[n] = "rate_limit" /\ n = MAX_RETRIES + 1

C24_QuotaHaltsOnlyStageB ==
  \A p \in Procs :
    LET c == cyc[p] IN
      c.quotaAt > 0 =>
        /\ c.pc \in {"send", "done"}
        /\ c.stageC
        /\ c.report.quotaExhausted
        /\ ~c.overlapped =>
             \A i \in c.scored :
               LET row == jobs[c.listed[i]]
               IN (row.match_score[1] >= minMatchScore /\ row.id \notin c.seenNotified)
                    => row.id \in Range(Ids(c.toNotify))
        /\ IsPrefix(c.dispatched, Ids(c.toNotify))
        /\ c.pc = "send" => Len(c.dispatched) = c.nIdx
        /\ c.pc = "done" => c.dispatched = Ids(c.toNotify)

C24_Witness ==
  \E p \in Procs :
    LET c == cyc[p] IN
      /\ c.quotaAt = 2 /\ c.scored = {1} /\ c.pc = "done"
      /\ c.report.quotaExhausted /\ c.report.analyzed = 1
      /\ c.dispatched = << c.listed[1] >>
      /\ c.report.notified = 1
      /\ \E i \in DOMAIN c.sendLog : c.sendLog[i].ok /\ c.sendLog[i].job = c.listed[1]

(* C25: score and reasoning are written together: every row has a score    *)
(* exactly when it has a reasoning, and analyzed counts only postings      *)
(* whose write was made.                                                   *)
C25_ScoreIffReasoning ==
  /\ \A i \in DOMAIN jobs :
       jobs[i].match_score # NULL <=> jobs[i].match_reasoning # NULL
  /\ \A p \in Procs :
       cyc[p].report.analyzed = Cardinality(cyc[p].scored)

(* C26: inserting a posting whose key is already stored leaves the stored  *)
(* row as it is, whatever the posting's other attributes: in every step    *)
(* that runs insertJob the rows already stored keep all their columns      *)
(* (title, score, reasoning, notified), and no step ever changes the       *)
(* attributes a row was inserted with.                                     *)
C26_ReinsertLeavesRow ==
  [][/\ ins' # ins =>
          \A i \in DOMAIN jobs : i \in DOMAIN jobs' /\ jobs'[i] = jobs[i]
     /\ \A i \in DOMAIN jobs :
          /\ i \in DOMAIN jobs'
          /\ jobs'[i].title = jobs[i].title
          /\ jobs'[i].source = jobs[i].source
          /\ jobs'[i].external_id = jobs[i].external_id]_vars

C26_Witness ==
  \E i \in DOMAIN jobs :
    LET h == ins[<< jobs[i].source, jobs[i].external_id >>] IN
      /\ h.diff /\ h.hit /\ h.t = 1 /\ h.f >= 1
      /\ jobs[i].title = "t1"
      /\ jobs[i].match_score = Some(70)
      /\ jobs[i].notified = 1

StoredKeys(db) == {<< db[i].source, db[i].external_id >> : i \in DOMAIN db}

(* C27: no step of the orchestrator removes a posting from the store: the  *)
(* set of keys stored and the number of rows never decrease.               *)
C27_NeverDeletes ==
  [][/\ StoredKeys(jobs) \subseteq StoredKeys(jobs')
     /\ Len(jobs') >= Len(jobs)]_vars

C27_Witness ==
  /\ Len(jobs) = 2
  /\ \E i \in DOMAIN jobs : jobs[i].notified = 1 /\ jobs[i].match_score # NULL
  /\ \E i \in DOMAIN jobs : jobs[i].match_score = NULL
  /\ \E p \in Procs : cyc[p].pc = "done" /\ cyc[p].nth = 2
  /\ \E k \in Keys : ins[k].f >= 1

(* position of a source in config.sites *)
Pos(name) == CHOOSE k \in DOMAIN Sites : Sites[k].name = name

(* the names are those of enabled sources, in the order of config.sites,   *)
(* none twice                                                              *)
EnabledInOrder(names) ==
  /\ \A i \in DOMAIN names : names[i] \in SiteNames /\ Sites[Pos(names[i])].enabled
  /\ \A i, j \in DOMAIN names : i < j => Pos(names[i]) < Pos(names[j])

(* C28: stage 1 fetches the enabled sources and only those, one at a time  *)
(* in the order of the configuration: the fetches made so far are those of *)
(* the enabled sources before the one being awaited, each once; a disabled *)
(* source is never fetched; and after stage 1 the report holds one         *)
(* sub-report per enabled source, in that order.                           *)
C28_EnabledSourcesInOrder ==
  \A p \in Procs :
    LET c == cyc[p]
        fetched == [i \in DOMAIN c.fetchLog |-> c.fetchLog[i].site]
        reported == [i \in DOMAIN c.report.sites |-> c.report.sites[i].site]
        enabled == {Sites[k].name : k \in {k \in DOMAIN Sites : Sites[k].enabled}}
    IN /\ EnabledInOrder(fetched)
       /\ EnabledInOrder(reported)
       /\ reported = fetched
       /\ c.pc = "fetch" =>
            LET cur == c.enabledSites[c.siteIdx]
            IN /\ cur \in enabled
               /\ Range(fetched) = {n \in enabled : Pos(n) < Pos(cur)}
       /\ StageADone(c) => Range(reported) = enabled /\ Len(reported) = Cardinality(enabled)

C28_Witness ==
  \E p \in Procs :
    LET c == cyc[p] IN
      /\ c.pc = "done"
      /\ Len(c.report.sites) = 2
      /\ c.report.sites[1].site = "remoteok" /\ c.report.sites[1].error # NULL
      /\ c.report.sites[2].site = "headhunter" /\ c.report.sites[2].fetched = 2
      /\ Len(c.fetchLog) = 2

(* C29: in every step in which a send of invocation p settles, whether it  *)
(* succeeded or failed: if the posting has recipients left, the next send  *)
(* is that of the same posting to the next recipient of the list read by   *)
(* notifyJob; otherwise stage 3 goes on, and notifyJob has been called for *)
(* every posting of the stage 3 list up to the next one that is sent (for  *)
(* all of them when the invocation ends).                                  *)
C29_FailedSendDoesNotStopOthers ==
  [][\A p \in Procs :
       LET c == cyc[p]
           d == cyc'[p]
       IN (c.pc = "send" /\ d.sendLog # c.sendLog) =>
            LET e == d.sendLog[Len(d.sendLog)] IN
              /\ d.sendLog = Append(c.sendLog, e)
              /\ e.job = c.toNotify[c.nIdx].id
              /\ e.chat = c.chats[c.chatIdx]
              /\ d.toNotify = c.toNotify
              /\ IF c.chatIdx < Len(c.chats)
                 THEN /\ d.pc = "send" /\ d.nIdx = c.nIdx
                      /\ d.chats = c.chats /\ d.chatIdx = c.chatIdx + 1
                 ELSE /\ d.pc \in {"send", "done"}
                      /\ d.pc = "send" =>
                           /\ d.nIdx > c.nIdx /\ d.chatIdx = 1
                           /\ d.dispatched = SubSeq(Ids(c.toNotify), 1, d.nIdx)
                      /\ d.pc = "done" => d.dispatched = Ids(c.toNotify)]_vars

C29_Witness ==
  \E p \in Procs :
    LET c == cyc[p] IN
      /\ c.pc = "done"
      /\ Len(c.toNotify) = 2 /\ Len(c.sendLog) = 4
      /\ c.sendLog[1].job = c.toNotify[1].id /\ c.sendLog[1].chat = 1 /\ ~c.sendLog[1].ok
      /\ c.sendLog[2].job = c.toNotify[1].id /\ c.sendLog[2].chat = 2 /\ c.sendLog[2].ok
      /\ c.sendLog[3].job = c.toNotify[2].id /\ c.sendLog[3].ok
      /\ c.dispatched = Ids(c.toNotify)

(* the rows invocation c inserted in its stage 1 *)
NewIds(c) ==
  UNION {(c.fetchLog[i].base + 1) .. (c.fetchLog[i].base + c.fetchLog[i].inserted) :
           i \in DOMAIN c.fetchLog}

(* C30: a row an invocation inserted in its stage 1 is in the stage 2 list *)
(* of that invocation, and if the invocation scored it at or above the     *)
(* minimum it is in the stage 3 list of that invocation.                   *)
C30_SameCycleVisibility ==
  \A p \in Procs :
    LET c == cyc[p] IN
      /\ StageADone(c) => NewIds(c) \subseteq Range(c.listed)
      /\ c.stageC =>
           \A i \in c.scored :
             (/\ c.listed[i] \in NewIds(c)
              /\ jobs[c.listed[i]].match_score[1] >= minMatchScore)
               => c.listed[i] \in Range(Ids(c.toNotify))

(* C31: the waits made for the posting being scored are 3000 ms before the *)
(* first retry and 6000 ms before the second, each after a rate-limited    *)
(* call; there is no wait before the first call of a posting and none      *)
(* after its third call.                                                   *)
C31_BackoffArithmetic ==
  \A p \in Procs :
    LET c == cyc[p]
        n == Len(c.calls)
        w == Len(c.waits)
    IN /\ w <= 2
       /\ \A k \in DOMAIN c.waits :
            /\ c.waits[k] = IF k = 1 THEN 3000 ELSE 6000
            /\ k <= n /\ c.calls[k] = "rate_limit"
       /\ w \in {n - 1, n} \/ n = 0
       /\ n = 0 => w = 0
       /\ n = 3 => w = 2
       /\ c.pc = "backoff" => w = n /\ c.attempt = n - 1
       /\ (c.pc = "score" /\ c.attempt = 0) => (w = n - 1 \/ n = 0)
       /\ (c.pc = "score" /\ c.attempt > 0) => (w = c.attempt /\ n = c.attempt)

C31_Witness ==
  \E p \in Procs :
    LET c == cyc[p] IN
      /\ c.calls = << "rate_limit", "rate_limit", "rate_limit" >>
      /\ c.waits = << 3000, 6000 >>
      /\ c.pc = "done"

(* C32: in every report, a sub-report without an error has fetched =       *)
(* newJobs + duplicates; a sub-report with an error has newJobs +          *)
(* duplicates <= fetched; and the rows a fetch inserted, before an error   *)
(* too, are counted in newJobs and are in the store under that source.     *)
C32_PerSourceCounts ==
  \A p \in Procs :
    LET c == cyc[p]
        sites == c.report.sites
    IN /\ \A i \in DOMAIN sites :
            /\ sites[i].error = NULL =>
                 sites[i].fetched = sites[i].newJobs + sites[i].duplicates
            /\ sites[i].error # NULL =>
                 sites[i].newJobs + sites[i].duplicates <= sites[i].fetched
       /\ Len(c.fetchLog) = Len(sites)
       /\ \A i \in DOMAIN c.fetchLog :
            LET f == c.fetchLog[i] IN
              /\ i \in DOMAIN sites /\ sites[i].newJobs = f.inserted
              /\ \A id \in (f.base + 1) .. (f.base + f.inserted) :
                   id \in DOMAIN jobs /\ jobs[id].source = f.site

C32_Witness ==
  \E p \in Procs :
    LET c == cyc[p]
        sites == c.report.sites
    IN /\ c.pc = "done" /\ Len(sites) = 2
       /\ sites[1].error = NULL /\ sites[1].fetched = 2
       /\ sites[1].newJobs = 1 /\ sites[1].duplicates = 1
       /\ sites[2].error = Some("store") /\ sites[2].fetched = 2
       /\ sites[2].newJobs = 1 /\ sites[2].duplicates = 0
       /\ Len(jobs) = 2 /\ jobs[2].source = "headhunter"

(* the counters of stage 2 against the list S read at its start *)
StageBCounts(c) ==
  LET r == c.report
      n == Len(c.listed)
  IN /\ r.analyzed + r.analysisFailed <= n
     /\ \A i, j \in DOMAIN c.listed : c.listed[i] = c.listed[j] => i = j
     /\ c.called \subseteq DOMAIN c.listed
     /\ c.scored \subseteq c.called
     /\ c.pc \in {"score", "backoff"} =>
          /\ c.called = 1 .. c.jobIdx
          /\ r.analyzed + r.analysisFailed = c.jobIdx - 1
          /\ ~r.quotaExhausted
     /\ c.stageC =>
          (r.analyzed + r.analysisFailed = n <=> ~r.quotaExhausted)

(* C33: with S the list read at the start of stage 2, analyzed +           *)
(* analysisFailed never exceeds |S| and, once stage 2 is over, equals |S|  *)
(* exactly when quotaExhausted is false; the loop takes the postings of S  *)
(* one after the other, each once; and a step in which an invocation       *)
(* writes a score writes it to the posting of S it is at, and to no other  *)
(* row.                                                                    *)
C33_StageBAccounting ==
  [][\A p \in Procs :
       LET c == cyc[p]
           d == cyc'[p]
       IN /\ StageBCounts(d)
          /\ (d.nth = c.nth /\ c.pc \in {"score", "backoff"} /\ d.pc \in {"score", "backoff"})
               => d.jobIdx \in {c.jobIdx, c.jobIdx + 1}
          /\ (d.nth = c.nth /\ d.report.analyzed # c.report.analyzed) =>
               /\ c.pc = "score"
               /\ d.report.analyzed = c.report.analyzed + 1
               /\ c.jobIdx \in DOMAIN c.listed /\ c.jobIdx \notin c.scored
               /\ d.scored = c.scored \cup {c.jobIdx}
               /\ \A i \in DOMAIN jobs :
                    i # c.listed[c.jobIdx] => jobs'[i] = jobs[i]
               /\ jobs'[c.listed[c.jobIdx]].match_score # NULL]_vars

C33_Witness ==
  \E p \in Procs :
    LET c == cyc[p] IN
      /\ c.pc = "done" /\ Len(c.listed) = 3
      /\ c.report.analyzed = 2 /\ c.report.analysisFailed = 1
      /\ ~c.report.quotaExhausted
      /\ c.called = {1, 2, 3} /\ c.scored = {1, 3}

(* C34: a row's notified flag goes from 0 to 1 only in a step in which a   *)
(* send of that row to some recipient succeeds; and a row for which        *)
(* notifyJob was called while no send of it has succeeded (every send      *)
(* failed, or no chat was active) has notified = 0 and, its score being    *)
(* what stage 3 listed, is still selected by the stage 3 query.            *)
C34_NotifiedOnlyAfterSuccess ==
  [][/\ \A i \in DOMAIN jobs :
          (jobs[i].notified = 0 /\ jobs'[i].notified = 1) =>
            \E p \in Procs :
              LET c == cyc[p] IN
                /\ c.pc = "send"
                /\ c.toNotify[c.nIdx].id = i
                /\ cyc'[p].sendLog =
                     Append(c.sendLog, [job |-> i, chat |-> c.chats[c.chatIdx], ok |-> TRUE])
     /\ \A p \in Procs :
          LET d == cyc'[p] IN
            \A k \in DOMAIN d.dispatched :
              LET id == d.dispatched[k] IN
                sends'[id].ok = {} =>
                  /\ jobs'[id].notified = 0
                  /\ jobs'[id].match_score = d.toNotify[k].match_score
                       => Eligible(jobs'[id])]_vars

C34_Witness ==
  \E p \in Procs :
    LET c == cyc[p] IN
      /\ c.pc = "done"
      /\ Len(c.dispatched) = 2
      /\ c.sendLog = << [job |-> c.dispatched[1], chat |-> 1, ok |-> FALSE],
                        [job |-> c.dispatched[2], chat |-> 1, ok |-> TRUE] >>
      /\ jobs[c.dispatched[1]].notified = 0 /\ Eligible(jobs[c.dispatched[1]])
      /\ jobs[c.dispatched[2]].notified = 1

(* C35: a posting at or above the minimum score that an earlier, finished  *)
(* invocation dispatched while no chat was active (waiting) is listed      *)
(* again by stage 3 of the next invocation; if a chat is active when it is *)
(* dispatched there, it is sent to that chat, and it is delivered (marked  *)
(* notified) as soon as one of those sends succeeds.                       *)
C35_DeliveredOnceSubscribed ==
  \A p \in Procs :
    LET c == cyc[p] IN
      c.pc = "done" =>
        \A i \in c.waiting :
          \/ i \in SilentIn(c)
          \/ /\ \E k \in DOMAIN c.sendLog : c.sendLog[k].job = i
             /\ (\E k \in DOMAIN c.sendLog : c.sendLog[k].job = i /\ c.sendLog[k].ok)
                  => jobs[i].notified = 1

(* the case of C35: a posting left waiting by a cycle without a chat is    *)
(* delivered by the next one                                               *)
C35_Delivered ==
  \E p \in Procs :
    LET c == cyc[p] IN
      /\ c.pc = "done" /\ c.nth = 2
      /\ \E i \in c.waiting :
           /\ c.sendLog = << [job |-> i, chat |-> 1, ok |-> TRUE] >>
           /\ jobs[i].notified = 1

(* C36: the sub-report of an enabled site that has no registered parser    *)
(* carries the error 'No parser registered' and zero fetched, new and      *)
(* duplicate counts; no fetch is awaited for that site and no row of the   *)
(* store has it as its source; and once stage 1 is over every enabled site *)
(* after it has its own sub-report, the sites with a parser having been    *)
(* fetched (their sub-report is not the missing-parser one).               *)
C36_MissingParser ==
  \A p \in Procs :
    LET c == cyc[p]
        sites == c.report.sites
    IN /\ \A i \in DOMAIN sites :
            ~getParser(sites[i].site) =>
              /\ sites[i].error = Some("No parser registered")
              /\ sites[i].fetched = 0 /\ sites[i].newJobs = 0 /\ sites[i].duplicates = 0
              /\ \A k \in DOMAIN jobs : jobs[k].source # sites[i].site
       /\ c.pc = "fetch" => getParser(c.enabledSites[c.siteIdx])
       /\ StageADone(c) =>
            /\ Len(sites) = Len(enabledSites)
            /\ \A j \in DOMAIN sites :
                 /\ sites[j].site = enabledSites[j]
                 /\ getParser(sites[j].site) => sites[j].error # Some("No parser registered")

C36_Witness ==
  \E p \in Procs :
    LET c == cyc[p]
        sites == c.report.sites
    IN /\ c.pc = "done" /\ Len(sites) = 3
       /\ sites[1].site = "remoteok" /\ sites[1].newJobs = 1
       /\ sites[2] = [site |-> "mysite", fetched |-> 0, newJobs |-> 0, duplicates |-> 0,
                      error |-> Some("No parser registered")]
       /\ sites[3].site = "headhunter" /\ sites[3].error = NULL /\ sites[3].newJobs = 1
       /\ Len(jobs) = 2 /\ jobs[2].source = "headhunter"

(* C37: in every step in which the store throws, the invocation goes on.   *)
(* Thrown by an insert of stage 1: the site's sub-report carries the       *)
(* exception's message as its error, and the loop is at the fetch of the   *)
(* next enabled site that has a parser, or past stage 1 when none is left. *)
(* Thrown by the score update of stage 2: the store is as it was (the      *)
(* posting without the score, unscored unless an overlapping invocation    *)
(* scored it), analysisFailed is one more, analyzed and quotaExhausted are *)
(* as they were, and the loop is at the scorer call of the next posting of *)
(* the list, or in stage 3 when none is left.                              *)
C37_StoreExceptionAbsorbed ==
  [][\A p \in Procs :
       LET c == cyc[p]
           d == cyc'[p]
           n == Len(c.report.sites) + 1
       IN /\ (/\ c.pc = "fetch"
              /\ Len(d.fetchLog) > Len(c.fetchLog)
              /\ d.fetchLog[Len(c.fetchLog) + 1].store) =>
               LET later == {j \in DOMAIN c.enabledSites :
                               j > c.siteIdx /\ getParser(c.enabledSites[j])}
               IN /\ d.pc # "thrown"
                  /\ Len(d.report.sites) >= n
                  /\ d.report.sites[n].site = c.enabledSites[c.siteIdx]
                  /\ d.report.sites[n].error = Some("store")
                  /\ IF later = {}
                     THEN StageADone(d)
                     ELSE /\ d.pc = "fetch"
                          /\ d.siteIdx \in later /\ \A j \in later : d.siteIdx <= j
          /\ (c.pc = "score" /\ d.storeThrew # c.storeThrew) =>
               LET id == c.unanalyzed[c.jobIdx].id
               IN /\ d.storeThrew = c.storeThrew \cup {c.jobIdx}
                  /\ d.pc # "thrown"
                  /\ jobs' = jobs
                  /\ ~c.overlapped => jobs'[id].match_score = NULL
                  /\ d.report.analysisFailed = c.report.analysisFailed + 1
                  /\ d.report.analyzed = c.report.analyzed
                  /\ d.report.quotaExhausted = c.report.quotaExhausted
                  /\ IF c.jobIdx < Len(c.unanalyzed)
                     THEN d.pc = "score" /\ d.jobIdx = c.jobIdx + 1 /\ d.attempt = 0
                     ELSE d.stageC]_vars

C37_Witness ==
  \E p \in Procs :
    LET c == cyc[p] IN
      /\ c.pc = "done" /\ ~c.overlapped
      /\ Len(c.report.sites) = 2
      /\ c.report.sites[1].error = Some("store")
      /\ c.report.sites[2].error = NULL /\ c.report.sites[2].newJobs = 2
      /\ Len(c.listed) = 2
      /\ c.storeThrew = {1} /\ c.scored = {2}
      /\ c.report.analysisFailed = 1 /\ c.report.analyzed = 1
      /\ jobs[c.listed[1]].match_score = NULL
      /\ jobs[c.listed[2]].match_score # NULL

====
